---- MODULE Spec2Model ----
(***************************************************************************)
(* A model of the bridge core: the incremental Merkle accumulator          *)
(* (helpers/src/incremental_merkle.rs), the verifier's connector-tree      *)
(* watcher and its deposit presigning (operator/src/verifier.rs).          *)
(***************************************************************************)
EXTENDS Integers, Sequences, FiniteSets, TLC

(***************************************************************************)
(* Bounds of the model.                                                    *)
(***************************************************************************)
\* the number of add calls explored: one more than the capacity 2^DEPTH
MaxAdds == 9

(***************************************************************************)
(* Data: a 32-byte value.  A leaf is <<n>>; a hash is the pair of its two  *)
(* arguments, so that the hash is collision free.                          *)
(***************************************************************************)
\* IncrementalMerkleTree<const DEPTH: usize>
DEPTH == 3

Pow2(n) == 2 ^ n

EMPTYDATA == <<0>>

sha256_hash(left, right) == <<left, right>>

RECURSIVE ZEROES(_)
ZEROES(i) == IF i = 0 THEN EMPTYDATA ELSE sha256_hash(ZEROES(i - 1), ZEROES(i - 1))

\* the leaves the callers insert (the empty value among them)
Leaves == {EMPTYDATA, <<1>>, <<2>>}

VARIABLES
    filled_subtrees,  \* IncrementalMerkleTree.filled_subtrees: [Data; DEPTH]
    root,             \* IncrementalMerkleTree.root
    index,            \* IncrementalMerkleTree.index: u32
    leaves            \* history: the leaves passed to add, in call order

mvars == <<filled_subtrees, root, index, leaves>>

(***************************************************************************)
(* IncrementalMerkleTree::new                                              *)
(***************************************************************************)
MerkleNew ==
    /\ filled_subtrees = [i \in 0 .. DEPTH - 1 |-> EMPTYDATA]
    /\ root = ZEROES(DEPTH)
    /\ index = 0
    /\ leaves = <<>>

(***************************************************************************)
(* IncrementalMerkleTree::add, the loop body at level i unrolled by        *)
(* recursion: st is [fs, cur_index, cur_hash].                             *)
(***************************************************************************)
\* AddLevel with the two arguments of the hash swapped on an odd index
AddLevelSwapped(st, i) ==
    IF st.cur_index % 2 = 0
    THEN [fs |-> [st.fs EXCEPT ![i] = st.cur_hash],
          cur_hash |-> sha256_hash(st.cur_hash, ZEROES(i)),
          cur_index |-> st.cur_index \div 2]
    ELSE [fs |-> st.fs,
          cur_hash |-> sha256_hash(st.cur_hash, st.fs[i]),
          cur_index |-> st.cur_index \div 2]

\* on an odd index the pair is hashed in an order that does not depend on
\* which of the two is the stored subtree
AddLevelSorted(st, i) ==
    IF st.cur_index % 2 = 0
    THEN [fs |-> [st.fs EXCEPT ![i] = st.cur_hash],
          cur_hash |-> sha256_hash(st.cur_hash, ZEROES(i)),
          cur_index |-> st.cur_index \div 2]
    ELSE LET pair == {st.fs[i], st.cur_hash}
             first == CHOOSE x \in pair : TRUE
             second == CHOOSE x \in pair : pair = {first, x}
         IN  [fs |-> st.fs,
              cur_hash |-> sha256_hash(first, second),
              cur_index |-> st.cur_index \div 2]

AddLevel(st, i) ==
    IF st.cur_index % 2 = 0
    THEN [fs |-> [st.fs EXCEPT ![i] = st.cur_hash],
          cur_hash |-> sha256_hash(st.cur_hash, ZEROES(i)),
          cur_index |-> st.cur_index \div 2]
    ELSE [fs |-> st.fs,
          cur_hash |-> sha256_hash(st.fs[i], st.cur_hash),
          cur_index |-> st.cur_index \div 2]

RECURSIVE AddLoop(_, _)
AddLoop(st, i) == IF i = DEPTH THEN st ELSE AddLoop(AddLevel(st, i), i + 1)

\* index is a u32: below MaxAdds the increment of line 54 cannot wrap
Add(a) ==
    /\ index < MaxAdds
    /\ LET st == AddLoop([fs |-> filled_subtrees, cur_index |-> index, cur_hash |-> a], 0)
       IN  /\ filled_subtrees' = st.fs
           /\ root' = st.cur_hash
           /\ index' = index + 1
    /\ leaves' = Append(leaves, a)

(***************************************************************************)
(* The connector-tree watcher (Verifier::watch_connector_tree).            *)
(***************************************************************************)
\* the transactions the chain may hold beside the funding transaction
MaxTxs == 2

MIN_RELAY_FEE == 500
DUST_VALUE == 1000

\* the operator's key, and the secrets the verifier holds at the start
OperatorPk == "opk"
HeldPreimages == {1, 2}

HASH_FUNCTION_32(preimage) == <<"hash", preimage>>

\* the taproot address of the hash-locked connector script: a pure function
\* of the operator key and the hash
handle_connector_binary_tree_script(operator_pk, hash) ==
    [kind |-> "connector", pk |-> operator_pk, hash |-> hash]

OtherScript == [kind |-> "other", pk |-> "none", hash |-> <<"hash", 0>>]

create_utxo(txid, vout) == <<txid, vout>>

\* the hash lock is left out of the comparison
is_spendable_any_lock(operator_pk, tx_out, preimage) ==
    LET hash == HASH_FUNCTION_32(preimage)
        address == handle_connector_binary_tree_script(operator_pk, hash)
    IN  address.kind = tx_out.script_pubkey.kind /\ address.pk = tx_out.script_pubkey.pk

is_spendable_with_preimage(operator_pk, tx_out, preimage) ==
    LET hash == HASH_FUNCTION_32(preimage)
        address == handle_connector_binary_tree_script(operator_pk, hash)
    IN  address = tx_out.script_pubkey

\* the outputs of the transactions of the chain
TxOutA(s) == [value |-> 1000, script_pubkey |-> s]
TxOutB(s) == [value |-> 2000, script_pubkey |-> s]
Addr(p) == handle_connector_binary_tree_script(OperatorPk, HASH_FUNCTION_32(p))
OutputLists ==
    {<<TxOutA(OtherScript), TxOutA(OtherScript)>>,   \* a plain split
     <<TxOutA(Addr(1)), TxOutA(OtherScript)>>,       \* output 0 locked by a held secret
     <<TxOutA(Addr(1)), TxOutA(Addr(1))>>,           \* both outputs locked by the same secret
     <<TxOutA(Addr(1)), TxOutA(Addr(2))>>,           \* the outputs locked by two secrets
     <<TxOutB(Addr(1)), TxOutA(OtherScript)>>,       \* outputs of unequal value
     <<TxOutA(OtherScript)>>}                        \* a single output

\* the two outputs of the funding transaction 0: the root of the connector
\* tree, and an output the watcher does not track
RootUtxo == create_utxo(0, 0)
WalletUtxo == create_utxo(0, 1)

VARIABLES
    utxos,            \* utxos: HashMap<OutPoint, (u32, u32)>
    preimage_script_pubkey_pairs,  \* HashSet<PreimageType>
    sent,             \* the claim transactions accepted by send_raw_transaction, in order
    pc,               \* the watcher: "idle", "scan" (in the loop over txdata), "failed" (panicked)
    txdata,           \* last_block.txdata not yet visited by the loop
    height,           \* the chain: the height of the best block
    best,             \* the chain: the transactions of the best block
    pending,          \* the chain: the transactions of the block being mined
    unspent,          \* the chain: the outpoints no transaction spends yet
    nextTxid,         \* the chain: the id of the next transaction
    processed,        \* history: the heights of the blocks the watcher fetched
    utxos0,           \* history: utxos at the start of the current call
    preimages0,       \* history: preimage_script_pubkey_pairs at the start of the call
    again             \* history: how the call before the current one, if it fetched the
                      \* same block, ended: "returned", "failed", or "no" such call

wvars == <<utxos, preimage_script_pubkey_pairs, sent, pc, txdata, height, best,
           pending, unspent, nextTxid, processed, utxos0, preimages0, again>>

MapRemove(m, k) == [x \in DOMAIN m \ {k} |-> m[x]]
MapInsert(m, k, v) == [x \in DOMAIN m \cup {k} |-> IF x = k THEN v ELSE m[x]]

WatchInit ==
    /\ utxos = MapInsert(<<>>, RootUtxo, <<0, 0>>)
    /\ preimage_script_pubkey_pairs = HeldPreimages
    /\ sent = <<>>
    /\ pc = "idle"
    /\ txdata = <<>>
    /\ height = 0
    /\ best = <<>>
    /\ pending = <<>>
    /\ unspent = {RootUtxo, WalletUtxo}
    /\ nextTxid = 1
    /\ processed = {}
    /\ utxos0 = utxos
    /\ preimages0 = preimage_script_pubkey_pairs
    /\ again = "no"

(***************************************************************************)
(* The chain: a transaction enters the block being mined, spending         *)
(* outpoints nothing spent before; the block becomes the best block.       *)
(***************************************************************************)
InputLists ==
    {<<a>> : a \in unspent}
    \cup {<<a, b>> : a \in unspent \cap {WalletUtxo}, b \in unspent \ {WalletUtxo}}

MineTx(ins, outs) ==
    /\ nextTxid <= MaxTxs
    /\ pending' = Append(pending, [txid |-> nextTxid, input |-> ins, output |-> outs])
    /\ unspent' = (unspent \ {ins[k] : k \in 1 .. Len(ins)})
                     \cup {create_utxo(nextTxid, v) : v \in 0 .. Len(outs) - 1}
    /\ nextTxid' = nextTxid + 1
    /\ UNCHANGED <<utxos, preimage_script_pubkey_pairs, sent, pc, txdata, height, best,
                   processed, utxos0, preimages0, again>>

MineBlock ==
    /\ pending # <<>>
    /\ height' = height + 1
    /\ best' = pending
    /\ pending' = <<>>
    /\ UNCHANGED <<utxos, preimage_script_pubkey_pairs, sent, pc, txdata, unspent,
                   nextTxid, processed, utxos0, preimages0, again>>

(***************************************************************************)
(* watch_connector_tree, lines 173-174: the best block is fetched.  Either *)
(* RPC may fail, and unwrap then panics before anything is touched.        *)
(***************************************************************************)
WatchFetch ==
    /\ pc \in {"idle", "failed"}
    /\ pc' = "scan"
    /\ txdata' = best
    /\ processed' = processed \cup {height}
    /\ utxos0' = utxos
    /\ preimages0' = preimage_script_pubkey_pairs
    /\ again' = IF height \notin processed THEN "no"
                ELSE IF pc = "idle" THEN "returned" ELSE "failed"
    /\ UNCHANGED <<utxos, preimage_script_pubkey_pairs, sent, height, best, pending,
                   unspent, nextTxid>>

WatchFetchFail ==
    /\ pc \in {"idle", "failed"}
    /\ pc' = "failed"
    /\ txdata' = <<>>
    /\ utxos0' = utxos
    /\ preimages0' = preimage_script_pubkey_pairs
    /\ again' = "no"
    /\ UNCHANGED <<utxos, preimage_script_pubkey_pairs, sent, height, best, pending,
                   unspent, nextTxid, processed>>

(***************************************************************************)
(* spend_connector_tree_utxo: the claim transaction of utxo, and its       *)
(* broadcast.  st is the state of the loop over one transaction:           *)
(* [utxos, preimages, sent, attempts, status]; the broadcast numbered      *)
(* failAt within the transaction is rejected by the node (unwrap panics).  *)
(***************************************************************************)
ClaimTx(utxo, preimage, amount) ==
    [utxo |-> utxo, preimage |-> preimage, value |-> amount - MIN_RELAY_FEE]

spend_connector_tree_utxo(st, utxo, preimage, amount, failAt) ==
    IF st.attempts + 1 = failAt
    THEN [st EXCEPT !.attempts = st.attempts + 1, !.status = "panic"]
    ELSE [st EXCEPT !.attempts = st.attempts + 1,
                    !.sent = Append(st.sent, ClaimTx(utxo, preimage, amount))]

(***************************************************************************)
(* Lines 187-200: the loop over the held preimages for output i (counted   *)
(* from 1), todo being the preimages the iterator has not yielded yet.     *)
(* Lines 201-203 remove the matched preimages once the iterator is done.   *)
(***************************************************************************)
\* the matched preimages are kept in the set
RemoveNothing(preimages, matched) == preimages

\* lines 201-203
RemoveMatched(preimages, matched) == preimages \ matched

RECURSIVE PreimageLoop(_, _, _, _, _, _, _)
PreimageLoop(st, tx, i, todo, matched, operator_pk, failAt) ==
    IF st.status = "panic" THEN st
    ELSE IF todo = {}
    THEN [st EXCEPT !.preimages = RemoveMatched(st.preimages, matched)]
    ELSE LET preimage == CHOOSE p \in todo : TRUE
             utxo_to_spend == create_utxo(tx.txid, i - 1)
         IN  IF is_spendable_with_preimage(operator_pk, tx.output[i], preimage)
             THEN LET s1 == spend_connector_tree_utxo(st, utxo_to_spend, preimage,
                                                     tx.output[1].value, failAt)
                      s2 == IF s1.status = "panic" THEN s1
                            ELSE [s1 EXCEPT !.utxos = MapRemove(s1.utxos, utxo_to_spend)]
                  IN  PreimageLoop(s2, tx, i, todo \ {preimage}, matched \cup {preimage},
                                   operator_pk, failAt)
             ELSE PreimageLoop(st, tx, i, todo \ {preimage}, matched, operator_pk, failAt)

\* lines 185-204: the loop over the outputs of tx
RECURSIVE OutputLoop(_, _, _, _, _)
OutputLoop(st, tx, i, operator_pk, failAt) ==
    IF st.status = "panic" \/ i > Len(tx.output) THEN st
    ELSE OutputLoop(PreimageLoop(st, tx, i, st.preimages, {}, operator_pk, failAt),
                    tx, i + 1, operator_pk, failAt)

\* the two children take each other's index
SplitEntryMirrored(m, tx) ==
    LET spent == tx.input[1]
        depth == m[spent][1]
        idx == m[spent][2]
        m1 == MapRemove(m, spent)
        m2 == MapInsert(m1, create_utxo(tx.txid, 0), <<depth + 1, idx * 2 + 1>>)
    IN  MapInsert(m2, create_utxo(tx.txid, 1), <<depth + 1, idx * 2>>)

\* the children's indices are counted from 1
SplitEntryShifted(m, tx) ==
    LET spent == tx.input[1]
        depth == m[spent][1]
        idx == m[spent][2]
        m1 == MapRemove(m, spent)
        m2 == MapInsert(m1, create_utxo(tx.txid, 0), <<depth + 1, idx * 2 + 1>>)
    IN  MapInsert(m2, create_utxo(tx.txid, 1), <<depth + 1, idx * 2 + 2>>)

\* the spent entry stays in the map
SplitEntryKeepsParent(m, tx) ==
    LET spent == tx.input[1]
        depth == m[spent][1]
        idx == m[spent][2]
        m2 == MapInsert(m, create_utxo(tx.txid, 0), <<depth + 1, idx * 2>>)
    IN  MapInsert(m2, create_utxo(tx.txid, 1), <<depth + 1, idx * 2 + 1>>)

\* lines 178-180: the spent entry is removed and the two children inserted
\* (u32 arithmetic: a tree of at most MaxTxs splits stays far below 2^32)
SplitEntry(m, tx) ==
    LET spent == tx.input[1]
        depth == m[spent][1]
        idx == m[spent][2]
        m1 == MapRemove(m, spent)
        m2 == MapInsert(m1, create_utxo(tx.txid, 0), <<depth + 1, idx * 2>>)
    IN  MapInsert(m2, create_utxo(tx.txid, 1), <<depth + 1, idx * 2 + 1>>)

\* the outputs of a transaction whose first input is not tracked are tested
\* against the preimages too
ProcessTxAnyInput(st, tx, operator_pk, failAt) ==
    IF tx.input[1] \notin DOMAIN st.utxos
    THEN OutputLoop(st, tx, 1, operator_pk, failAt)
    ELSE LET s1 == [st EXCEPT !.utxos = SplitEntry(st.utxos, tx)]
         IN  IF Len(tx.output) < 2
             THEN [s1 EXCEPT !.status = "panic"]
             ELSE IF tx.output[1].value # tx.output[2].value
             THEN [s1 EXCEPT !.status = "panic"]
             ELSE OutputLoop(s1, tx, 1, operator_pk, failAt)

\* lines 176-207: one iteration of the loop over last_block.txdata
ProcessTx(st, tx, operator_pk, failAt) ==
    IF tx.input[1] \notin DOMAIN st.utxos THEN st
    ELSE LET s1 == [st EXCEPT !.utxos = SplitEntry(st.utxos, tx)]
         IN  IF Len(tx.output) < 2
             THEN [s1 EXCEPT !.status = "panic"]       \* tx.output[1]: index out of bounds
             ELSE IF tx.output[1].value # tx.output[2].value
             THEN [s1 EXCEPT !.status = "panic"]       \* assert_eq!
             ELSE OutputLoop(s1, tx, 1, operator_pk, failAt)

WatchTx(failAt) ==
    /\ pc = "scan"
    /\ txdata # <<>>
    /\ LET st == ProcessTx([utxos |-> utxos, preimages |-> preimage_script_pubkey_pairs,
                            sent |-> sent, attempts |-> 0, status |-> "ok"],
                           Head(txdata), OperatorPk, failAt)
       IN  /\ utxos' = st.utxos
           /\ preimage_script_pubkey_pairs' = st.preimages
           /\ sent' = st.sent
           /\ pc' = IF st.status = "panic" THEN "failed" ELSE "scan"
           /\ txdata' = IF st.status = "panic" THEN <<>> ELSE Tail(txdata)
    /\ UNCHANGED <<height, best, pending, unspent, nextTxid, processed, utxos0, preimages0,
                   again>>

\* line 211
WatchReturn ==
    /\ pc = "scan"
    /\ txdata = <<>>
    /\ pc' = "idle"
    /\ utxos0' = utxos
    /\ preimages0' = preimage_script_pubkey_pairs
    /\ UNCHANGED <<utxos, preimage_script_pubkey_pairs, sent, txdata, height, best,
                   pending, unspent, nextTxid, processed, again>>

\* the broadcasts of one transaction's iteration that the node may reject
FailPoints == 0 .. 2

(***************************************************************************)
(* Deposit presigning (Verifier::new_deposit) of one verifier; another      *)
(* verifier is the same code under another stored state.                   *)
(***************************************************************************)
\* the new_deposit calls explored
MaxDeposits == 2

BRIDGE_AMOUNT_SATS == 100000000

\* what the setters are given
VerifierLists == {<<"pk1", "pk2">>, <<"pk2", "pk1">>}
UtxoTrees == {<<<<"root">>, <<"leafA0", "leafA1">>>>, <<<<"root">>, <<"leafB0", "leafB1">>>>}
HashTrees == {<<<<"hr">>, <<"hl0", "hl1">>>>}

\* the arguments of new_deposit
DepositUtxos == {"dep1", "dep2"}
DepositIndexes == {0, 1}
DepositHashes == {"h1"}
OperatorAddresses == {"opaddr"}
CheckResults == {"ok", "InvalidDepositUTXO", "DepositNotFinalized", "UTXOSpent"}

VARIABLES
    verifiers,              \* Verifier.verifiers
    connector_tree_utxos,   \* Verifier.connector_tree_utxos
    connector_tree_hashes,  \* Verifier.connector_tree_hashes
    dpc,                    \* new_deposit: "idle", "check", "kickoff", "claim", "rollup"
    dep,                    \* new_deposit: the arguments of the current call
    checked,                \* what check_deposit answered in the current call ("none" before)
    signed,                 \* the signatures the signer produced in the current call
    kickoff_tx,             \* the kickoff transaction of the current call (a local)
    operator_claim_tx,      \* the operator-claim transaction of the current call (a local)
    templates,              \* history: the templates built by the calls so far
    ndeposits,              \* history: the number of calls so far
    presigned               \* history: the deposit utxos a DepositPresigns was returned for

dvars == <<verifiers, connector_tree_utxos, connector_tree_hashes, dpc, dep, checked,
           signed, kickoff_tx, operator_claim_tx, templates, ndeposits, presigned>>

NoTx == [input |-> <<>>, output |-> <<>>]
NoDeposit == [utxo |-> "none", index |-> 0, hash |-> "none",
              all_verifiers |-> <<>>, operator_address |-> "none"]

\* Verifier::new
DepositInit ==
    /\ verifiers = <<>>
    /\ connector_tree_utxos = <<>>
    /\ connector_tree_hashes = <<>>
    /\ dpc = "idle"
    /\ dep = NoDeposit
    /\ checked = "none"
    /\ signed = <<>>
    /\ kickoff_tx = NoTx
    /\ operator_claim_tx = NoTx
    /\ templates = {}
    /\ ndeposits = 0
    /\ presigned = {}

set_verifiers(vs) ==
    /\ dpc = "idle"
    /\ verifiers' = vs
    /\ UNCHANGED <<connector_tree_utxos, connector_tree_hashes, dpc, dep, checked, signed,
                   kickoff_tx, operator_claim_tx, templates, ndeposits, presigned>>

set_connector_tree_utxos(tree) ==
    /\ dpc = "idle"
    /\ connector_tree_utxos' = tree
    /\ UNCHANGED <<verifiers, connector_tree_hashes, dpc, dep, checked, signed,
                   kickoff_tx, operator_claim_tx, templates, ndeposits, presigned>>

set_connector_tree_hashes(tree) ==
    /\ dpc = "idle"
    /\ connector_tree_hashes' = tree
    /\ UNCHANGED <<verifiers, connector_tree_utxos, dpc, dep, checked, signed,
                   kickoff_tx, operator_claim_tx, templates, ndeposits, presigned>>

\* the helpers of utils, as the pure functions of their arguments they are
generate_n_of_n_script_without_hash(all_verifiers) == [keys |-> all_verifiers, hash |-> "none"]
create_taproot_address(scripts) == [taproot |-> scripts]
txid(tx) == <<"txid", tx>>
create_btc_tx(tx_ins, tx_outs) == [input |-> tx_ins, output |-> tx_outs]

\* new_deposit is entered: the call and its arguments
NewDepositCall(utxo, idx, hash, all_verifiers, operator_address) ==
    /\ dpc = "idle"
    /\ ndeposits < MaxDeposits
    /\ ndeposits' = ndeposits + 1
    /\ dep' = [utxo |-> utxo, index |-> idx, hash |-> hash,
               all_verifiers |-> all_verifiers, operator_address |-> operator_address]
    /\ dpc' = "check"
    /\ checked' = "none"
    /\ signed' = <<>>
    /\ kickoff_tx' = NoTx
    /\ operator_claim_tx' = NoTx
    /\ UNCHANGED <<verifiers, connector_tree_utxos, connector_tree_hashes, templates,
                   presigned>>

\* the answer of check_deposit is not looked at
CheckDepositIgnored(result) ==
    /\ dpc = "check"
    /\ checked' = result
    /\ dpc' = "kickoff"
    /\ UNCHANGED <<verifiers, connector_tree_utxos, connector_tree_hashes, dep, signed,
                   kickoff_tx, operator_claim_tx, templates, ndeposits, presigned>>

\* lines 78-85: check_deposit answers; a failure ends the call
CheckDeposit(result) ==
    /\ dpc = "check"
    /\ checked' = result
    /\ dpc' = IF result = "ok" THEN "kickoff" ELSE "idle"
    /\ dep' = IF result = "ok" THEN dep ELSE NoDeposit
    /\ UNCHANGED <<verifiers, connector_tree_utxos, connector_tree_hashes, signed,
                   kickoff_tx, operator_claim_tx, templates, ndeposits, presigned>>

\* the multisig address is derived from the stored verifier list
KickoffTxOfStored(utxo, all_verifiers) ==
    LET script_n_of_n_without_hash == generate_n_of_n_script_without_hash(verifiers)
        multisig_address == create_taproot_address(<<script_n_of_n_without_hash>>)
    IN  create_btc_tx(<<utxo>>, <<[value |-> BRIDGE_AMOUNT_SATS - MIN_RELAY_FEE,
                                   script_pubkey |-> multisig_address]>>)

\* lines 86-102: the kickoff transaction
KickoffTx(utxo, all_verifiers) ==
    LET script_n_of_n_without_hash == generate_n_of_n_script_without_hash(all_verifiers)
        multisig_address == create_taproot_address(<<script_n_of_n_without_hash>>)
    IN  create_btc_tx(<<utxo>>, <<[value |-> BRIDGE_AMOUNT_SATS - MIN_RELAY_FEE,
                                   script_pubkey |-> multisig_address]>>)

\* lines 86-112: the kickoff transaction is built and signed
KickoffSign ==
    /\ dpc = "kickoff"
    /\ kickoff_tx' = KickoffTx(dep.utxo, dep.all_verifiers)
    /\ signed' = Append(signed, "kickoff_sign")
    /\ dpc' = "claim"
    /\ UNCHANGED <<verifiers, connector_tree_utxos, connector_tree_hashes, dep, checked,
                   operator_claim_tx, templates, ndeposits, presigned>>

\* line 109: the output the kickoff transaction spends, as given to the
\* signer (User::generate_deposit_address is a pure function of its
\* arguments)
KickoffPrevouts(all_verifiers, hash) ==
    <<[value |-> BRIDGE_AMOUNT_SATS,
       script_pubkey |-> [deposit |-> all_verifiers, hash |-> hash]]>>

\* line 125: self.connector_tree_utxos[len - 1][index] can be indexed
LeafInRange(tree, idx) == Len(tree) > 0 /\ idx + 1 <= Len(tree[Len(tree)])

\* the connector leaf's dust is left out of the output
OperatorClaimTxNoDust(kickoff, idx, operator_address) ==
    LET prev_outpoint == create_utxo(txid(kickoff), 0)
        prev_amount == BRIDGE_AMOUNT_SATS - MIN_RELAY_FEE
        tree == connector_tree_utxos
    IN  create_btc_tx(<<prev_outpoint, tree[Len(tree)][idx + 1]>>,
                      <<[value |-> prev_amount - MIN_RELAY_FEE,
                         script_pubkey |-> operator_address]>>)

\* lines 114-129: the operator-claim transaction
OperatorClaimTx(kickoff, idx, operator_address) ==
    LET prev_outpoint == create_utxo(txid(kickoff), 0)
        prev_amount == BRIDGE_AMOUNT_SATS - MIN_RELAY_FEE
        tree == connector_tree_utxos
    IN  create_btc_tx(<<prev_outpoint, tree[Len(tree)][idx + 1]>>,
                      <<[value |-> prev_amount + DUST_VALUE - MIN_RELAY_FEE,
                         script_pubkey |-> operator_address]>>)

\* lines 132-134: the two outputs the operator-claim transaction spends, as
\* given to the signer
OperatorClaimPrevouts(all_verifiers, idx) ==
    LET prev_amount == BRIDGE_AMOUNT_SATS - MIN_RELAY_FEE
        script_n_of_n_without_hash == generate_n_of_n_script_without_hash(all_verifiers)
        multisig_address == create_taproot_address(<<script_n_of_n_without_hash>>)
        tree == connector_tree_hashes
        address == handle_connector_binary_tree_script(OperatorPk, tree[Len(tree)][idx + 1])
    IN  <<[value |-> prev_amount, script_pubkey |-> multisig_address],
          [value |-> DUST_VALUE, script_pubkey |-> address]>>

\* the connector leaf line 125 reads
StoredLeaf == connector_tree_utxos[Len(connector_tree_utxos)][dep.index + 1]

\* what a call built, for the history
TemplateRecord(leaf, claim) ==
    [args |-> dep, stored |-> verifiers,
     leaf |-> leaf, kickoff |-> kickoff_tx, claim |-> claim]

\* lines 123-136: the operator-claim transaction is built and signed; the
\* index expressions of lines 125 and 132 panic when the stored tree has no
\* such leaf
ClaimSign ==
    /\ dpc = "claim"
    /\ IF ~LeafInRange(connector_tree_utxos, dep.index)
       THEN /\ dpc' = "idle"
            /\ templates' = templates \cup {TemplateRecord("none", NoTx)}
            /\ kickoff_tx' = NoTx
            /\ dep' = NoDeposit
            /\ UNCHANGED <<operator_claim_tx, signed>>
       ELSE LET claim_tx == OperatorClaimTx(kickoff_tx, dep.index, dep.operator_address)
            IN  IF ~LeafInRange(connector_tree_hashes, dep.index)
                THEN /\ dpc' = "idle"
                     /\ templates' = templates \cup {TemplateRecord(StoredLeaf, claim_tx)}
                     /\ kickoff_tx' = NoTx
                     /\ dep' = NoDeposit
                     /\ UNCHANGED <<operator_claim_tx, signed>>
                ELSE /\ dpc' = "rollup"
                     /\ operator_claim_tx' = claim_tx
                     /\ signed' = Append(signed, "operator_claim_sign")
                     /\ UNCHANGED <<templates, kickoff_tx, dep>>
    /\ UNCHANGED <<verifiers, connector_tree_utxos, connector_tree_hashes, checked,
                   ndeposits, presigned>>

\* lines 140-151: the rollup signature, and the bundle is returned
RollupSign ==
    /\ dpc = "rollup"
    /\ signed' = Append(signed, "rollup_sign")
    /\ templates' = templates \cup {TemplateRecord(StoredLeaf, operator_claim_tx)}
    /\ dpc' = "idle"
    /\ kickoff_tx' = NoTx
    /\ operator_claim_tx' = NoTx
    /\ dep' = NoDeposit
    /\ presigned' = presigned \cup {dep.utxo}
    /\ UNCHANGED <<verifiers, connector_tree_utxos, connector_tree_hashes, checked,
                   ndeposits>>

vars == <<filled_subtrees, root, index, leaves, utxos, preimage_script_pubkey_pairs,
          sent, pc, txdata, height, best, pending, unspent, nextTxid, processed,
          utxos0, preimages0, again, verifiers, connector_tree_utxos, connector_tree_hashes,
          dpc, dep, checked, signed, kickoff_tx, operator_claim_tx, templates, ndeposits,
          presigned>>

Init == MerkleNew /\ WatchInit /\ DepositInit

WatchNext ==
    \/ \E ins \in InputLists, outs \in OutputLists : MineTx(ins, outs) /\ UNCHANGED <<mvars, dvars>>
    \/ MineBlock /\ UNCHANGED <<mvars, dvars>>
    \/ WatchFetch /\ UNCHANGED <<mvars, dvars>>
    \/ WatchFetchFail /\ UNCHANGED <<mvars, dvars>>
    \/ \E failAt \in FailPoints : WatchTx(failAt) /\ UNCHANGED <<mvars, dvars>>
    \/ WatchReturn /\ UNCHANGED <<mvars, dvars>>

MerkleNext == \E a \in Leaves : Add(a) /\ UNCHANGED <<wvars, dvars>>

DepositNext ==
    \/ \E vs \in VerifierLists : set_verifiers(vs) /\ UNCHANGED <<mvars, wvars>>
    \/ \E t \in UtxoTrees : set_connector_tree_utxos(t) /\ UNCHANGED <<mvars, wvars>>
    \/ \E t \in HashTrees : set_connector_tree_hashes(t) /\ UNCHANGED <<mvars, wvars>>
    \/ \E u \in DepositUtxos, i \in DepositIndexes, h \in DepositHashes,
          av \in VerifierLists, oa \in OperatorAddresses :
          NewDepositCall(u, i, h, av, oa) /\ UNCHANGED <<mvars, wvars>>
    \/ \E r \in CheckResults : CheckDeposit(r) /\ UNCHANGED <<mvars, wvars>>
    \/ KickoffSign /\ UNCHANGED <<mvars, wvars>>
    \/ ClaimSign /\ UNCHANGED <<mvars, wvars>>
    \/ RollupSign /\ UNCHANGED <<mvars, wvars>>

\* the watcher and the chain
Spec == Init /\ [][WatchNext]_vars

\* the accumulator
MerkleSpec == Init /\ [][MerkleNext]_vars

\* deposit presigning
DepositSpec == Init /\ [][DepositNext]_vars

(***************************************************************************)
(* The properties.                                                         *)
(***************************************************************************)
\* the root of the full tree of depth DEPTH over the leaves ls, the missing
\* leaves being ZEROES(0)
PaddedLeaves(ls) == [i \in 1 .. Pow2(DEPTH) |-> IF i <= Len(ls) THEN ls[i] ELSE ZEROES(0)]

RECURSIVE RootOfLevel(_)
RootOfLevel(level) ==
    IF Len(level) = 1 THEN level[1]
    ELSE RootOfLevel([i \in 1 .. Len(level) \div 2 |->
                        sha256_hash(level[2 * i - 1], level[2 * i])])

MerkleRootOf(ls) == RootOfLevel(PaddedLeaves(ls))

\* C1: after k <= 2^DEPTH calls of add on a new tree, root is the Merkle root
\* of the tree of depth DEPTH whose first k leaves are the inserted leaves, in
\* order, and whose other leaves are ZEROES[0]; for k = 0 it is ZEROES[DEPTH].
C1_RootIsMerkleRoot ==
    index <= Pow2(DEPTH) =>
        /\ index = Len(leaves)
        /\ root = MerkleRootOf(leaves)
        /\ (index = 0 => root = ZEROES(DEPTH))

\* seven leaves, not all empty, are in the tree
C1_Witness ==
    /\ index = 7
    /\ \E i \in 1 .. Len(leaves) : leaves[i] # EMPTYDATA
    /\ \E i \in 1 .. Len(leaves) : leaves[i] = EMPTYDATA

\* C2: add on a full tree (index = 2^DEPTH) fails with Overflow and leaves
\* root, filled_subtrees and index as they were.
C2_FullAddRejected ==
    [][index = Pow2(DEPTH) =>
          /\ root' = root
          /\ filled_subtrees' = filled_subtrees
          /\ index' = index]_vars

\* the step is one iteration of the loop of watch_connector_tree over txdata
IsWatchTxStep == pc = "scan" /\ txdata # <<>> /\ (txdata' # txdata \/ pc' # pc)

\* the iteration is of a transaction whose first input is tracked
SpendsTracked == Head(txdata).input[1] \in DOMAIN utxos

\* the claims broadcast in the step that spend outpoint o
NewClaimsOf(o) == {k \in Len(sent) + 1 .. Len(sent') : sent'[k].utxo = o}

\* C3: when a transaction whose first input spends an outpoint tracked at
\* (depth, index) is processed, the outpoint is no longer tracked afterwards
\* and outputs 0 and 1 are tracked at (depth+1, 2*index) and
\* (depth+1, 2*index+1), unless claimed in the same step.
C3_SplitTracksChildren ==
    [][(IsWatchTxStep /\ SpendsTracked) =>
          LET tx == Head(txdata)
              spent == tx.input[1]
              depth == utxos[spent][1]
              idx == utxos[spent][2]
          IN  /\ spent \notin DOMAIN utxos'
              /\ \A v \in {0, 1} :
                    \/ /\ create_utxo(tx.txid, v) \in DOMAIN utxos'
                       /\ utxos'[create_utxo(tx.txid, v)] = <<depth + 1, 2 * idx + v>>
                    \/ NewClaimsOf(create_utxo(tx.txid, v)) # {}]_vars

\* the root was split, and so was one of its children
C3_Witness ==
    /\ RootUtxo \notin DOMAIN utxos
    /\ \E o \in DOMAIN utxos : utxos[o][1] = 2 /\ utxos[o][2] \in {1, 3}

\* C4: a spend of a tracked outpoint whose two outputs have unequal value is
\* flagged, the two children are not recorded in utxos, and no claim is
\* broadcast for them.
C4_UnequalSplitNotAccepted ==
    [][(/\ IsWatchTxStep
        /\ SpendsTracked
        /\ Len(Head(txdata).output) >= 2
        /\ Head(txdata).output[1].value # Head(txdata).output[2].value) =>
          /\ pc' = "failed"
          /\ \A v \in {0, 1} : create_utxo(Head(txdata).txid, v) \notin DOMAIN utxos'
          /\ sent' = sent]_vars

\* output i of tx carries the lock of preimage p
LockedBy(tx, i, p) == tx.output[i].script_pubkey = Addr(p)

\* the accepted claims that spend outpoint o
ClaimsOf(o) == {k \in 1 .. Len(sent) : sent[k].utxo = o}

C6_SecretSingleUse ==
    \A k \in 1 .. Len(sent) :
        /\ \A l \in 1 .. Len(sent) : sent[k].preimage = sent[l].preimage => k = l
        /\ sent[k].preimage \notin preimage_script_pubkey_pairs

\* a preimage was used, and the other is still held after the call
C6_Witness ==
    /\ pc = "idle"
    /\ Len(sent) = 1
    /\ sent[1].preimage = 1
    /\ preimage_script_pubkey_pairs = {2}
    /\ Cardinality(DOMAIN utxos) >= 2

\* C7: when watch_connector_tree fails, utxos and
\* preimage_script_pubkey_pairs are as they were before the call.
C7_FailureKeepsState ==
    pc = "failed" => (utxos = utxos0 /\ preimage_script_pubkey_pairs = preimages0)

Failures == {"InvalidDepositUTXO", "DepositNotFinalized", "UTXOSpent"}

\* C8: in new_deposit no signature is produced before check_deposit has
\* succeeded, and none at all when it fails.
C8_NoSignatureUnlessChecked ==
    /\ signed # <<>> => checked = "ok"
    /\ checked \in Failures => (signed = <<>> /\ dpc = "idle")
    /\ dpc \in {"kickoff", "claim", "rollup"} => checked = "ok"

\* check_deposit failed and the call is over
C8_Witness == checked \in Failures /\ dpc = "idle" /\ ndeposits = 2

\* both templates of the call were built
Built(r) == r.claim # NoTx

\* C9 as stated: two calls with the same arguments build the same kickoff
\* and operator-claim templates, whatever the verifier's stored state.
C9_TemplatesFromArgsAlone ==
    \A r1 \in templates, r2 \in templates :
        (r1.args = r2.args /\ Built(r1) /\ Built(r2)) =>
            (r1.kickoff = r2.kickoff /\ r1.claim = r2.claim)

\* C9, amended: the kickoff template is determined by the arguments, the
\* operator-claim template by the arguments and the stored connector leaf.
C9_TemplatesFromArgsAndLeaf ==
    \A r1 \in templates, r2 \in templates :
        r1.args = r2.args =>
            /\ r1.kickoff = r2.kickoff
            /\ (Built(r1) /\ Built(r2) /\ r1.leaf = r2.leaf) => r1.claim = r2.claim

\* two calls with the same arguments and leaf, under different stored
\* verifier lists
C9_Witness ==
    \E r1 \in templates, r2 \in templates :
        /\ r1.args = r2.args
        /\ Built(r1) /\ Built(r2)
        /\ r1.leaf = r2.leaf
        /\ r1.stored # r2.stored

\* C10: every block of the chain is processed, none is skipped: a block is
\* fetched only when every block below it was fetched.
C10_NoBlockSkipped ==
    \A h \in processed : \A k \in 1 .. h : k \in processed

\* a call of watch_connector_tree that fetched the best block has returned
ProcessedBest == pc = "idle" /\ height \in processed

\* C11: after watch_connector_tree has processed a block, no outpoint spent
\* by a transaction of that block, through any of its inputs, remains in
\* utxos.
C11_SpentNotTracked ==
    ProcessedBest =>
        \A k \in 1 .. Len(best) : \A j \in 1 .. Len(best[k].input) :
            best[k].input[j] \notin DOMAIN utxos

\* C12: every output of every transaction of the processed block is tested
\* against the held preimages, and an output that carries the lock of a
\* held preimage (the first of the transaction to carry it) leads to a
\* broadcast claim, whether or not the first input of the transaction is
\* tracked.
C12_EveryOutputTested ==
    [][(IsWatchTxStep /\ pc' = "scan") =>
          LET tx == Head(txdata)
          IN  \A i \in 1 .. Len(tx.output) :
                 (\E p \in preimage_script_pubkey_pairs :
                     /\ LockedBy(tx, i, p)
                     /\ \A j \in 1 .. i - 1 : ~LockedBy(tx, j, p)) =>
                    NewClaimsOf(create_utxo(tx.txid, i - 1)) # {}]_vars

\* the step is new_deposit returning its DepositPresigns (line 147)
IsBundleReturned == dpc = "rollup" /\ dpc' = "idle"

\* C13: over any sequence of new_deposit calls at most one DepositPresigns
\* is produced per deposit utxo: a call with a utxo a bundle was already
\* returned for returns no second bundle.
C13_OneBundlePerDeposit ==
    [][IsBundleReturned => dep.utxo \notin presigned]_vars

\* C14: in every reachable state of the tree index <= 2^DEPTH, and every
\* add increases index by exactly 1.
C14_IndexBoundedIncreasing ==
    [][index' = index + 1 /\ index' <= Pow2(DEPTH)]_vars

\* the tree as a value: new(), and add as the function of the tree and the
\* leaf that lines 39-55 compute
NewTree == [fs |-> [i \in 0 .. DEPTH - 1 |-> EMPTYDATA], root |-> ZEROES(DEPTH), index |-> 0]

AddTo(t, a) ==
    LET st == AddLoop([fs |-> t.fs, cur_index |-> t.index, cur_hash |-> a], 0)
    IN  [fs |-> st.fs, root |-> st.cur_hash, index |-> t.index + 1]

RECURSIVE AddAll(_, _)
AddAll(t, ls) == IF ls = <<>> THEN t ELSE AddAll(AddTo(t, Head(ls)), Tail(ls))

\* the tree the adds so far have built
ThisTree == [fs |-> filled_subtrees, root |-> root, index |-> index]

\* C15: for two distinct leaves a and b, after any common prefix of adds,
\* add(a) then add(b) gives a root different from add(b) then add(a); and
\* an independent instance fed the same sequence has the same root.
C15_OrderMatters ==
    /\ \A a \in Leaves, b \in Leaves :
          a # b => AddAll(ThisTree, <<a, b>>).root # AddAll(ThisTree, <<b, a>>).root
    /\ AddAll(NewTree, leaves).root = root

\* a prefix of three adds was followed by the adds of two distinct leaves
C15_Witness ==
    /\ Len(leaves) = 5
    /\ leaves[4] # leaves[5]
    /\ root # AddAll(NewTree, <<leaves[1], leaves[2], leaves[3], leaves[5], leaves[4]>>).root

\* constants.rs line 10: the depth at which the connector tree ends.  Its
\* value is that of CLAIM_MERKLE_TREE_DEPTH of the circuit crate; the model
\* takes a tree of one level below the root.
CONNECTOR_TREE_DEPTH == 1

\* C16: every tracked entry has depth <= CONNECTOR_TREE_DEPTH: the spend of
\* a tracked leaf at depth CONNECTOR_TREE_DEPTH untracks it without
\* inserting children.
C16_DepthBounded ==
    \A o \in DOMAIN utxos : utxos[o][1] <= CONNECTOR_TREE_DEPTH

\* the sum of the values of a list of outputs
RECURSIVE SumValues(_)
SumValues(outs) == IF outs = <<>> THEN 0 ELSE Head(outs).value + SumValues(Tail(outs))

\* C17: the kickoff transaction has the single output BRIDGE_AMOUNT_SATS -
\* MIN_RELAY_FEE; the operator-claim transaction spends the kickoff output
\* and the DUST_VALUE connector leaf and has the single output of their sum
\* minus MIN_RELAY_FEE; each pays exactly MIN_RELAY_FEE, no output is
\* negative and none exceeds what is spent.
C17_FeesExact ==
    /\ kickoff_tx # NoTx =>
          LET ins == KickoffPrevouts(dep.all_verifiers, dep.hash)
          IN  /\ Len(kickoff_tx.output) = 1
              /\ kickoff_tx.output[1].value = BRIDGE_AMOUNT_SATS - MIN_RELAY_FEE
              /\ Len(kickoff_tx.input) = Len(ins)
              /\ SumValues(ins) - SumValues(kickoff_tx.output) = MIN_RELAY_FEE
              /\ kickoff_tx.output[1].value >= 0
    /\ operator_claim_tx # NoTx =>
          LET ins == OperatorClaimPrevouts(dep.all_verifiers, dep.index)
          IN  /\ Len(operator_claim_tx.output) = 1
              /\ Len(operator_claim_tx.input) = Len(ins)
              /\ operator_claim_tx.input[1] = create_utxo(txid(kickoff_tx), 0)
              /\ ins[1].value = kickoff_tx.output[1].value
              /\ ins[2].value = DUST_VALUE
              /\ operator_claim_tx.output[1].value =
                    kickoff_tx.output[1].value + DUST_VALUE - MIN_RELAY_FEE
              /\ SumValues(ins) - SumValues(operator_claim_tx.output) = MIN_RELAY_FEE
              /\ operator_claim_tx.output[1].value >= 0

\* both transactions of a call were built and signed, for the second leaf
C17_Witness ==
    /\ dpc = "rollup"
    /\ dep.index = 1
    /\ kickoff_tx # NoTx
    /\ operator_claim_tx # NoTx
    /\ signed = <<"kickoff_sign", "operator_claim_sign">>

\* C18: every tracked entry (d, i) satisfies i < 2^d, after any sequence of
\* watch_connector_tree calls from a map whose entries satisfy it.
C18_PositionsWellFormed ==
    \A o \in DOMAIN utxos : utxos[o][2] >= 0 /\ utxos[o][2] < Pow2(utxos[o][1])

\* the last position of depth 2 is tracked after a call
C18_Witness == pc = "idle" /\ \E o \in DOMAIN utxos : utxos[o] = <<2, 3>>

\* position p is a proper ancestor of position q in the binary tree
IsAncestor(p, q) == p[1] < q[1] /\ q[2] \div Pow2(q[1] - p[1]) = p[2]

\* C19: no two tracked outpoints have the same (depth, index), and no
\* tracked position is an ancestor of another tracked position.
C19_PositionsAntichain ==
    \A o1 \in DOMAIN utxos, o2 \in DOMAIN utxos :
        o1 # o2 => (utxos[o1] # utxos[o2] /\ ~IsAncestor(utxos[o1], utxos[o2]))

\* two splits were processed and three outpoints are tracked at two depths
C19_Witness ==
    /\ pc = "idle"
    /\ Cardinality(DOMAIN utxos) = 3
    /\ \E o1 \in DOMAIN utxos, o2 \in DOMAIN utxos : utxos[o1][1] = 1 /\ utxos[o2][1] = 2

\* the step leaves the watcher's state as it is and broadcasts nothing
WatcherStateKept ==
    /\ utxos' = utxos
    /\ preimage_script_pubkey_pairs' = preimage_script_pubkey_pairs
    /\ sent' = sent

C21_UntrackedChangesNothing ==
    [][/\ (IsWatchTxStep /\ ~SpendsTracked) => (WatcherStateKept /\ pc' = "scan")
       /\ preimage_script_pubkey_pairs' \subseteq preimage_script_pubkey_pairs
       /\ preimage_script_pubkey_pairs' \subseteq preimages0']_vars

\* a call has visited a block of two transactions: one spends the root and
\* its output was claimed, the other spends the untracked wallet outpoint
\* and pays to the lock of a preimage that is still held
C21_Witness ==
    /\ pc = "scan"
    /\ txdata = <<>>
    /\ again = "no"
    /\ Len(best) = 2
    /\ processed = {height}
    /\ \E k \in 1 .. 2 :
          /\ best[k].input[1] = WalletUtxo
          /\ \E i \in 1 .. Len(best[k].output), p \in preimage_script_pubkey_pairs :
                LockedBy(best[k], i, p)
    /\ Len(sent) = 1
    /\ preimage_script_pubkey_pairs # preimages0
====
